---- MODULE Spec2Model ----
(***************************************************************************)
(* A model of src/src/pdf/pdf.py: the Pdf wrapper that copies a source     *)
(* document into a writer (three-tier fallback), adds bookmarks, lists and *)
(* extracts the outline, and saves the writer next to the source.          *)
(*                                                                         *)
(* Text is a sequence of one-character strings, so that strip(), the       *)
(* indentation, the page digits and os.path.splitext are computed, not     *)
(* assumed.  A document is a record of its page objects' identifiers (in   *)
(* page order) and its outline.                                            *)
(***************************************************************************)
EXTENDS Integers, Sequences, FiniteSets, TLC

VARIABLES
    path,          \* self.path
    keep_outline,  \* self.keep_outline
    reader,        \* self.reader: the parsed document, [pages, outline]
    pages_num,     \* self.pages_num: page-object idnum -> zero-based position
    _writer,       \* self._writer: NoWriter (None) or the cached writer
    fs,            \* the file system: path -> file, for the files that exist
    base,          \* the base writer handed to the last copy_reader_to_writer, as that call left it
    log,           \* the copy attempts of the last copy_reader_to_writer: tier, outcome, pages appended
    copies,        \* how many times copy_reader_to_writer has run on this wrapper
    added,         \* the add_bookmark calls that returned: arguments and handle
    last_call,     \* the last add_bookmark / save_pdf call: returned or raised, and the value
    reopened,      \* a second wrapper, Pdf(new path), and what its exist_bookmarks() returned
    listing,       \* what the last exist_bookmarks() call on this wrapper returned
    extracted      \* what the last _extract_bookmarks(reader.outline) call returned

outlineVars == <<reader, pages_num, listing, extracted>>

writerVars == <<path, keep_outline, _writer, fs, base, log, copies, added, last_call, reopened>>

vars == <<path, keep_outline, reader, pages_num, _writer, fs, base, log, copies,
          added, last_call, reopened, listing, extracted>>

(***************************************************************************)
(* Bounds                                                                  *)
(***************************************************************************)
\* Largest source outline drawn in InitOutline: leaves, unknown nodes and
\* nested lists each count one.
MaxNodes == 4
\* Most add_bookmark calls that return, on one wrapper.
MaxBookmarks == 3
\* Most runs of copy_reader_to_writer on one wrapper (a failed copy is retried
\* by the next access to writer).
MaxCopies == 2

(***************************************************************************)
(* Text                                                                    *)
(***************************************************************************)
SP == " "

\* F(v), with v evaluated once.
Bind(v, F(_)) == CHOOSE r \in {F(x) : x \in {v}} : TRUE

Digit == <<"0", "1", "2", "3", "4", "5", "6", "7", "8", "9">>

RECURSIVE Spaces(_)
\* " " * n
Spaces(n) == IF n <= 0 THEN <<>> ELSE <<SP>> \o Spaces(n - 1)

RECURSIVE LStrip(_)
LStrip(s) == IF s # <<>> /\ Head(s) = SP THEN LStrip(Tail(s)) ELSE s

RECURSIVE RStrip(_)
RStrip(s) ==
    IF s # <<>> /\ s[Len(s)] = SP THEN RStrip(SubSeq(s, 1, Len(s) - 1)) ELSE s

\* str.strip(): whitespace is modelled by the space character.
Strip(s) == RStrip(LStrip(s))

RECURSIVE ToDigits(_)
\* "{}".format(n) for an integer n >= 0: its decimal digits.
ToDigits(n) ==
    IF n < 10 THEN <<Digit[n + 1]>> ELSE ToDigits(n \div 10) \o <<Digit[(n % 10) + 1]>>

(***************************************************************************)
(* Outline items, as PdfReader.outline yields them: a Destination (title,  *)
(* page target), a nested list, or something else.  A page target is an    *)
(* indirect reference to a page object ("ref", its idnum), a number        *)
(* ("int") or a null object ("null").                                      *)
(***************************************************************************)
RefPage(id) == [t |-> "ref", n |-> id]
IntPage(k) == [t |-> "int", n |-> k]
NullPage == [t |-> "null", n |-> 0]

Destination(title, page) ==
    [kind |-> "dest", title |-> title, page |-> page, items |-> <<>>]
NestedList(items) ==
    [kind |-> "list", title |-> <<>>, page |-> NullPage, items |-> items]
Unknown == [kind |-> "junk", title |-> <<>>, page |-> NullPage, items |-> <<>>]

\* None, for a parent (a parent is otherwise the non-empty path of a leaf).
None == <<>>
\* None, for a page number (a page number is otherwise >= 0).
NoPage == 0 - 1

(***************************************************************************)
(* Pdf._get_pages_num                                                      *)
(***************************************************************************)
RECURSIVE GetPagesNumFrom(_, _, _)
GetPagesNumFrom(pages, i, acc) ==
    IF i > Len(pages) THEN acc
    ELSE GetPagesNumFrom(pages, i + 1, (pages[i] :> (i - 1)) @@ acc)

\* pages_num[page.indirect_ref.idnum] = page.page_number, for each page in
\* order (a later page with the same idnum overwrites an earlier one).
_get_pages_num(pages) == GetPagesNumFrom(pages, 1, <<>>)

(***************************************************************************)
(* Pdf._outlines_to_bookmarks                                              *)
(***************************************************************************)
\* "{title}  {page_num}".format(...)
FormatEntry(title, page_num) == title \o <<SP, SP>> \o ToDigits(page_num)

PageNumPlusOneMissing(pn, idnum) == pn[idnum]

\* page_num = self.pages_num[idnum] + 1
DisplayedPage(pn, idnum) == pn[idnum] + 1

\* The body of the try block for one Destination: ok is FALSE when it raises
\* (a null page has no idnum: AttributeError; an idnum that is no key of
\* pages_num: KeyError).  An int page is itself taken as the idnum.
DestinationEntry(pn, o, current_level) ==
    IF o.page.t = "null" THEN [ok |-> FALSE, entry |-> <<>>]
    ELSE LET idnum == o.page.n
             title == Spaces(current_level) \o Strip(o.title)
         IN  IF idnum \notin DOMAIN pn THEN [ok |-> FALSE, entry |-> <<>>]
             ELSE [ok |-> TRUE,
                   entry |-> FormatEntry(title, DisplayedPage(pn, idnum))]

OnLeafErrorRaise(acc) == [acc EXCEPT !.raised = TRUE]

\* except Exception as e: logger.error(e) -- the entry is left out.
OnLeafError(acc) == acc

RECURSIVE OutlinesLoop(_, _, _, _, _)
\* for o in outlines: ...  acc is [index_list, raised]; a raised exception
\* ends the loop and every enclosing one.
OutlinesLoop(pn, outlines, current_level, i, acc) ==
    IF i > Len(outlines) \/ acc.raised THEN acc
    ELSE LET o == outlines[i]
             next ==
                 CASE o.kind = "dest" ->
                        LET e == DestinationEntry(pn, o, current_level)
                        IN  IF e.ok
                            THEN [acc EXCEPT !.index_list = Append(@, e.entry)]
                            ELSE OnLeafError(acc)
                   [] o.kind = "list" ->
                        OutlinesLoop(pn, o.items, current_level + 1, 1, acc)
                   [] OTHER -> acc
         IN  OutlinesLoop(pn, outlines, current_level, i + 1, next)

_outlines_to_bookmarks(pn, outlines, current_level) ==
    OutlinesLoop(pn, outlines, current_level, 1,
                 [index_list |-> <<>>, raised |-> FALSE])

(***************************************************************************)
(* Pdf._extract_bookmarks.  A Destination object is identified by its path *)
(* in the outline (the indices leading to it), which is what "parent":     *)
(* last_destination refers to.                                             *)
(***************************************************************************)
\* PdfReader.get_destination_page_number: the position of the page the
\* destination refers to, or None.
get_destination_page_number(pn, item) ==
    IF item.page.t # "null" /\ item.page.n \in DOMAIN pn
    THEN pn[item.page.n] ELSE NoPage

ChildParentInherited(parent, last_destination) == parent

\* parent=last_destination, in the recursive call for a nested list
ChildParent(parent, last_destination) == last_destination

RECURSIVE ExtractLoop(_, _, _, _, _, _, _)
ExtractLoop(pn, outlines, parent, prefix, i, last_destination, result) ==
    IF i > Len(outlines) THEN result
    ELSE LET item == outlines[i] IN
         CASE item.kind = "list" ->
                ExtractLoop(pn, outlines, parent, prefix, i + 1, last_destination,
                    ExtractLoop(pn, item.items,
                                ChildParent(parent, last_destination),
                                prefix \o <<i>>, 1, None, result))
           [] item.kind = "dest" ->
                ExtractLoop(pn, outlines, parent, prefix, i + 1, prefix \o <<i>>,
                    Append(result,
                           [title |-> item.title,
                            page_number |-> get_destination_page_number(pn, item),
                            parent |-> parent]))
           [] OTHER ->
                ExtractLoop(pn, outlines, parent, prefix, i + 1, last_destination,
                            result)

_extract_bookmarks(pn, outlines) ==
    ExtractLoop(pn, outlines, None, <<>>, 1, None, <<>>)

(***************************************************************************)
(* Reading an outline and a listing back, for the properties               *)
(***************************************************************************)
RECURSIVE LeavesFrom(_, _, _, _)
\* The Destinations of an outline in pre-order, siblings in source order,
\* each with its tree level and its path.
LeavesFrom(outlines, level, prefix, i) ==
    IF i > Len(outlines) THEN <<>>
    ELSE LET o == outlines[i]
             here == CASE o.kind = "dest" ->
                            <<[leaf |-> o, level |-> level, path |-> prefix \o <<i>>]>>
                       [] o.kind = "list" ->
                            LeavesFrom(o.items, level + 1, prefix \o <<i>>, 1)
                       [] OTHER -> <<>>
         IN  here \o LeavesFrom(outlines, level, prefix, i + 1)

Leaves(outlines) == LeavesFrom(outlines, 0, <<>>, 1)

RECURSIVE ItemsAt(_, _)
\* The item sequence that the list at path pth holds (the outline itself for <<>>).
ItemsAt(outlines, pth) ==
    IF pth = <<>> THEN outlines ELSE ItemsAt(outlines[Head(pth)].items, Tail(pth))

Front(s) == SubSeq(s, 1, Len(s) - 1)
Last(s) == s[Len(s)]

\* The zero-based position of the page object `id` in the page sequence.
HasPage(pages, id) == \E i \in 1..Len(pages) : pages[i] = id
PositionOf(pages, id) ==
    (CHOOSE i \in 1..Len(pages) :
        pages[i] = id /\ \A j \in (i + 1)..Len(pages) : pages[j] # id) - 1

RECURSIVE LeadingSpaces(_)
LeadingSpaces(s) ==
    IF s # <<>> /\ Head(s) = SP THEN 1 + LeadingSpaces(Tail(s)) ELSE 0

DigitValue(c) == (CHOOSE d \in 1..10 : Digit[d] = c) - 1

RECURSIVE FromDigits(_)
FromDigits(s) ==
    IF s = <<>> THEN 0 ELSE 10 * FromDigits(Front(s)) + DigitValue(Last(s))

RECURSIVE AfterLastSpace(_)
AfterLastSpace(s) ==
    IF s = <<>> \/ Last(s) = SP THEN <<>> ELSE AfterLastSpace(Front(s)) \o <<Last(s)>>

\* The page number a listing entry shows.
PageShown(entry) == FromDigits(AfterLastSpace(entry))

\* The leaves whose target names an entry of the document's page sequence,
\* whether the target is a reference or a number.
ListedLeaves(doc) ==
    LET Keyed(r) == r.leaf.page.t # "null" /\ HasPage(doc.pages, r.leaf.page.n)
    IN  SelectSeq(Leaves(doc.outline), Keyed)

NotListed == [done |-> FALSE, index_list |-> <<>>, raised |-> FALSE]
NotExtracted == [done |-> FALSE, nodes |-> <<>>]

(***************************************************************************)
(* Documents.  A file holds a document: the idnums of its page objects in  *)
(* page order, and its outline tree as a sequence of nodes (title, page    *)
(* target, parent: the index of the parent node, 0 for the root), children *)
(* after their parent and siblings in order.  PdfReader.outline presents   *)
(* that tree as nested lists: each node's children are the list that       *)
(* follows it.                                                             *)
(***************************************************************************)
Node(title, page, parent) == [title |-> title, page |-> page, parent |-> parent]

PdfFile(pages, nodes) == [kind |-> "pdf", pages |-> pages, nodes |-> nodes]
\* What open(path, "wb") leaves before anything is written.
EmptyFile == [kind |-> "empty", pages |-> <<>>, nodes |-> <<>>]

RECURSIVE ChildrenOf(_, _, _)
ChildrenOf(nodes, p, i) ==
    IF i > Len(nodes) THEN <<>>
    ELSE IF nodes[i].parent # p THEN ChildrenOf(nodes, p, i + 1)
    ELSE LET sub == ChildrenOf(nodes, i, i + 1)
         IN  <<Destination(nodes[i].title, nodes[i].page)>>
             \o (IF sub = <<>> THEN <<>> ELSE <<NestedList(sub)>>)
             \o ChildrenOf(nodes, p, i + 1)

\* PdfReader(open(path, "rb"), strict=False): pages and outline.
PdfReader(file) == [pages |-> file.pages, outline |-> ChildrenOf(file.nodes, 0, 1)]

(***************************************************************************)
(* The writer.  A writer object is [obj, pages, root, nodes]: its identity, *)
(* the idnums of its pages, whether its root object has "/Outlines", and   *)
(* its outline nodes.  Objects live in a heap (identity -> value), so that *)
(* a copy and the object it was copied from can be told apart.             *)
(***************************************************************************)
\* self._writer = None
NoWriter == [obj |-> 0, pages |-> <<>>, root |-> FALSE, nodes |-> <<>>]

\* PdfWriter()
PdfWriter(id) == [obj |-> id, pages |-> <<>>, root |-> FALSE, nodes |-> <<>>]

\* The idnum the writer gives the page object it adds as its k-th page.
WriterPageId(k) == k + 1

DeepCopyAliased(h, src, fresh) == [heap |-> h, obj |-> src]

\* new_writer = copy.deepcopy(writer): a new object with the same content.
deepcopy(h, src, fresh) ==
    [heap |-> (fresh :> [h[src] EXCEPT !.obj = fresh]) @@ h, obj |-> fresh]

\* What one copy attempt does: it succeeds, or it raises after having
\* appended `pages` of the source's pages.
Outcomes(rd) ==
    {[ok |-> TRUE, pages |-> Len(rd.pages)]}
    \cup {[ok |-> FALSE, pages |-> k] : k \in 0..Len(rd.pages)}

\* The outcomes of the three attempts; an attempt that is never made, because
\* an earlier one succeeds, is given as succeeding.
Envs(rd) ==
    {e \in [1..3 -> Outcomes(rd)] :
        \A t \in 2..3 : (\E s \in 1..(t - 1) : e[s].ok) => e[t].ok}

LogEntry(tier, outcome) == [tier |-> tier, ok |-> outcome.ok, pages |-> outcome.pages]

WithPages(w, n) ==
    [w EXCEPT !.pages = @ \o [i \in 1..n |-> WriterPageId(Len(w.pages) + i)]]

\* The source outline as the writer's nodes, each target redirected to the
\* writer's copy of the page it referred to.
ImportedFrom(L, rd, w, firstPage) ==
    LET IndexOf(pth) == IF \E k \in 1..Len(L) : L[k].path = pth
                        THEN CHOOSE k \in 1..Len(L) : L[k].path = pth ELSE 0
        ParentOf(pth) ==
            IF Len(pth) = 1 \/ pth[Len(pth) - 1] = 1 THEN 0
            ELSE IndexOf(SubSeq(pth, 1, Len(pth) - 2) \o <<pth[Len(pth) - 1] - 1>>)
        Target(pg) ==
            IF pg.t = "ref"
            THEN IF HasPage(rd.pages, pg.n)
                 THEN RefPage(w.pages[firstPage + PositionOf(rd.pages, pg.n)])
                 ELSE NullPage
            ELSE pg
    IN  [k \in 1..Len(L) |->
            Node(L[k].leaf.title, Target(L[k].leaf.page),
                 IF ParentOf(L[k].path) = 0 THEN 0
                 ELSE Len(w.nodes) + ParentOf(L[k].path))]

ImportedNodes(rd, w, firstPage) ==
    Bind(Leaves(rd.outline), LAMBDA L : ImportedFrom(L, rd, w, firstPage))

\* new_writer.append(reader, import_outline=..., [excluded_fields=...]): the
\* pages, then the outline root and, if asked for, the source's outline.
append(h, obj, rd, import_outline, outcome) ==
    Bind(WithPages(h[obj], outcome.pages), LAMBDA paged :
        [heap |->
            [h EXCEPT ![obj] =
                IF ~outcome.ok THEN paged
                ELSE [paged EXCEPT
                        !.root = TRUE,
                        !.nodes = IF import_outline
                                  THEN @ \o ImportedNodes(rd, paged, Len(h[obj].pages) + 1)
                                  ELSE @]],
         ok |-> outcome.ok])

\* new_writer.append_pages_from_reader(reader): the pages only.
append_pages_from_reader(h, obj, rd, outcome) ==
    [heap |-> [h EXCEPT ![obj] = WithPages(h[obj], outcome.pages)], ok |-> outcome.ok]

(***************************************************************************)
(* Pdf.copy_reader_to_writer.  `writer` is the identity of the base        *)
(* writer; the result is the heap    as the call leaves it, the identity of   *)
(* the writer returned, whether the call raised, and its attempts.         *)
(***************************************************************************)
SecondFallbackMissing(h, writer, rd, env, lg) ==
    [heap |-> h, new_writer |-> 0, raised |-> TRUE, log |-> lg]

\* The inner except: the page-only copy, whose failure is not caught.
SecondFallback(h, writer, rd, env, lg) ==
    Bind(deepcopy(h, writer, writer + 3), LAMBDA c :
    Bind(append_pages_from_reader(c.heap, c.obj, rd, env[3]), LAMBDA a :
        [heap |-> a.heap, new_writer |-> IF a.ok THEN c.obj ELSE 0,
         raised |-> ~a.ok, log |-> Append(lg, LogEntry(3, env[3]))]))

\* The outer except: the append that excludes /Annots and /B.
FirstFallback(h, writer, rd, keep, env, lg) ==
    Bind(deepcopy(h, writer, writer + 2), LAMBDA c :
    Bind(append(c.heap, c.obj, rd, keep, env[2]), LAMBDA a :
    Bind(Append(lg, LogEntry(2, env[2])), LAMBDA l :
        IF a.ok
        THEN [heap |-> a.heap, new_writer |-> c.obj, raised |-> FALSE, log |-> l]
        ELSE SecondFallback(a.heap, writer, rd, env, l))))

copy_reader_to_writer(h, writer, rd, keep, env) ==
    Bind(deepcopy(h, writer, writer + 1), LAMBDA c :
    Bind(append(c.heap, c.obj, rd, keep, env[1]), LAMBDA a :
    Bind(<<LogEntry(1, env[1])>>, LAMBDA l :
        IF a.ok
        THEN [heap |-> a.heap, new_writer |-> c.obj, raised |-> FALSE, log |-> l]
        ELSE FirstFallback(a.heap, writer, rd, keep, env, l))))

(***************************************************************************)
(* Pdf.writer                                                              *)
(***************************************************************************)
CacheIgnored(w) == FALSE

\* `if not self._writer` is false: a writer object is truthy, None is not.
WriterIsCached(w) == w.obj # 0

PopOutlinesSkipped(w) == w

\* writer._root_object.pop("/Outlines", None)
PopOutlines(w) == [w EXCEPT !.root = FALSE, !.nodes = <<>>]

\* The property: what it returns or that it raised, and the wrapper's state
\* after it.  A new PdfWriter() is object 4 * copies + 1; its copies follow.
writer(env) ==
    IF WriterIsCached(_writer)
    THEN [raised |-> FALSE, writer |-> _writer, base |-> base, log |-> log,
          copies |-> copies]
    ELSE LET b == 4 * copies + 1 IN
         Bind(copy_reader_to_writer(b :> PdfWriter(b), b, reader, keep_outline, env),
              LAMBDA r :
             IF r.raised
             THEN [raised |-> TRUE, writer |-> _writer, base |-> r.heap[b],
                   log |-> r.log, copies |-> copies + 1]
             ELSE [raised |-> FALSE,
                   writer |-> IF ~keep_outline THEN PopOutlines(r.heap[r.new_writer])
                              ELSE r.heap[r.new_writer],
                   base |-> r.heap[b], log |-> r.log, copies |-> copies + 1])

\* An access to self.writer is modelled while a copy may still run.
MayAccess == WriterIsCached(_writer) \/ copies < MaxCopies

(***************************************************************************)
(* Pdf.add_bookmark                                                        *)
(***************************************************************************)
InRange(w, page_number) == page_number \in 0..(Len(w.pages) - 1)

\* Nodes of the writer that no add_bookmark call made: the imported outline.
Imported(w) == Len(w.nodes) - Len(added)

\* PdfWriter.add_outline_item(title, page_number, parent=..., fit=Fit.xyz()).
\* It appends a node under parent (under the root for None) and returns its
\* handle.  The library may refuse a page number out of range, and may fail
\* on an outline it did not build itself; when it accepts a page number out
\* of range the target is that number, not a page reference.
add_outline_item(w, title, page_number, parent, accepted) ==
    IF ~accepted THEN [ok |-> FALSE, writer |-> w, handle |-> 0]
    ELSE [ok |-> TRUE,
          writer |-> [w EXCEPT
              !.root = TRUE,
              !.nodes = Append(@, Node(title,
                                       IF InRange(w, page_number)
                                       THEN RefPage(w.pages[page_number + 1])
                                       ELSE IntPage(page_number),
                                       parent))],
          handle |-> Len(w.nodes) + 1]

MayRefuse(w, page_number) == ~InRange(w, page_number) \/ Imported(w) > 0

PassedPagePlusOne(pagenum) == pagenum + 1

\* add_bookmark hands pagenum on as it is.
PassedPage(pagenum) == pagenum

PassedParentDropped(parent) == 0

\* add_bookmark hands parent on as it is (0 stands for None).
PassedParent(parent) == parent

NoResult == [op |-> "none", raised |-> FALSE, path |-> <<>>, handle |-> 0]

add_bookmark(title, pagenum, parent, env, accepted) ==
    /\ Len(added) < MaxBookmarks
    /\ MayAccess
    /\ parent = 0 \/ \E k \in 1..Len(added) : added[k].handle = parent
    /\ \E a \in {writer(env)} :
       \E r \in {add_outline_item(a.writer, title, PassedPage(pagenum),
                                  PassedParent(parent), accepted)} :
           /\ base' = a.base
           /\ log' = a.log
           /\ copies' = a.copies
           /\ IF a.raised
              THEN /\ accepted
                   /\ _writer' = a.writer
                   /\ added' = added
                   /\ last_call' = [NoResult EXCEPT !.op = "add_bookmark", !.raised = TRUE]
              ELSE /\ accepted \/ MayRefuse(a.writer, PassedPage(pagenum))
                   /\ _writer' = r.writer
                   /\ added' = IF r.ok
                               THEN Append(added, [title |-> title, pagenum |-> pagenum,
                                                   parent |-> parent, handle |-> r.handle])
                               ELSE added
                   /\ last_call' = [NoResult EXCEPT !.op = "add_bookmark",
                                                 !.raised = ~r.ok, !.handle = r.handle]
    /\ UNCHANGED <<path, keep_outline, fs, reopened>>
    /\ UNCHANGED outlineVars

(***************************************************************************)
(* Pdf._new_path                                                           *)
(***************************************************************************)
\* p.rfind(c), one-based; 0 when c is not in p.
RFind(p, c) ==
    IF \E i \in 1..Len(p) : p[i] = c
    THEN CHOOSE i \in 1..Len(p) : p[i] = c /\ \A j \in (i + 1)..Len(p) : p[j] # c
    ELSE 0

\* os.path.splitext: the extension starts at the last dot of the last path
\* component, unless only dots come before it in that component.
splitext(p) ==
    LET sepIndex == RFind(p, "/")
        dotIndex == RFind(p, ".")
    IN  IF dotIndex > sepIndex
           /\ \E k \in (sepIndex + 1)..(dotIndex - 1) : p[k] # "."
        THEN <<SubSeq(p, 1, dotIndex - 1), SubSeq(p, dotIndex, Len(p))>>
        ELSE <<p, <<>>>>

NewPathAfterExtension(p) == p \o <<"_", "n", "e", "w">>

\* name + "_new" + ext
_new_path(p) ==
    LET name == splitext(p)[1]
        ext == splitext(p)[2]
    IN  name \o <<"_", "n", "e", "w">> \o ext

(***************************************************************************)
(* Pdf.save_pdf                                                            *)
(***************************************************************************)
\* os.remove(p)
Remove(files, p) == [q \in DOMAIN files \ {p} |-> files[q]]

\* open(p, "wb") and, later, what is written through it.
Write(files, p, file) == (p :> file) @@ files

save_pdf(env) ==
    /\ MayAccess
    /\ \E np \in {_new_path(path)}, a \in {writer(env)} :
       \E opened \in {Write(IF np \in DOMAIN fs THEN Remove(fs, np) ELSE fs,
                             np, EmptyFile)} :
           /\ base' = a.base
           /\ log' = a.log
           /\ copies' = a.copies
           /\ _writer' = a.writer
           /\ IF a.raised
              THEN /\ fs' = opened
                   /\ last_call' = [NoResult EXCEPT !.op = "save_pdf", !.raised = TRUE]
              ELSE /\ fs' = Write(opened, np, PdfFile(a.writer.pages, a.writer.nodes))
                   /\ last_call' = [NoResult EXCEPT !.op = "save_pdf", !.path = np]
    /\ UNCHANGED <<path, keep_outline, added, reopened>>
    /\ UNCHANGED outlineVars

(***************************************************************************)
(* A second wrapper on the saved file: Pdf(new path).exist_bookmarks()     *)
(***************************************************************************)
NotReopened == [done |-> FALSE, raised |-> FALSE, file |-> EmptyFile, index_list |-> <<>>]

reopen ==
    /\ _new_path(path) \in DOMAIN fs
    /\ \E file \in {fs[_new_path(path)]} :
       \E rd \in {PdfReader(file)} :
           reopened' =
               IF file.kind # "pdf"
               THEN [NotReopened EXCEPT !.done = TRUE, !.raised = TRUE, !.file = file]
               ELSE [done |-> TRUE, raised |-> FALSE, file |-> file,
                     index_list |->
                         _outlines_to_bookmarks(_get_pages_num(rd.pages),
                                                rd.outline, 0).index_list]
    /\ UNCHANGED <<path, keep_outline, _writer, fs, base, log, copies, added, last_call>>
    /\ UNCHANGED outlineVars

(***************************************************************************)
(* The wrapper's life: Pdf(path, keep_outline), then any calls             *)
(***************************************************************************)
\* The source paths, and beside each the path of its "_new" sibling, where a
\* file may exist before the first save.
SrcPaths == {<<"a", ".", "b", ".", "p">>, <<".", "a">>, <<"d", ".", "d", "/", "a">>}

Sibling(p) ==
    CASE p = <<"a", ".", "b", ".", "p">> -> <<"a", ".", "b", "_", "n", "e", "w", ".", "p">>
      [] p = <<".", "a">> -> <<".", "a", "_", "n", "e", "w">>
      [] p = <<"d", ".", "d", "/", "a">> -> <<"d", ".", "d", "/", "a", "_", "n", "e", "w">>

\* The source document: two pages, a bookmark with a child.
SourceFile ==
    PdfFile(<<4, 7>>, <<Node(<<"a">>, RefPage(4), 0), Node(<<"c">>, RefPage(7), 1)>>)

\* A file of an earlier run.
StaleFile == PdfFile(<<9>>, <<>>)

\* The titles and page numbers add_bookmark is called with: a plain title, a
\* padded one, a blank one, and a page number past the last page.
Marks ==
    {[title |-> <<"a">>, pagenum |-> 0],
     [title |-> <<SP, "b">>, pagenum |-> 1],
     [title |-> <<SP>>, pagenum |-> 0],
     [title |-> <<"a">>, pagenum |-> 2]}

PlainMarks == {[title |-> <<"a">>, pagenum |-> 0]}

\* The source copies at the first attempt.
CleanEnvs(rd) == {e \in Envs(rd) : e[1].ok}

InitWith(paths, stale) ==
    /\ path \in paths
    /\ keep_outline \in BOOLEAN
    /\ fs \in {path :> SourceFile} \cup
              (IF stale THEN {(path :> SourceFile) @@ (Sibling(path) :> StaleFile)} ELSE {})
    /\ reader = PdfReader(fs[path])
    /\ pages_num = _get_pages_num(reader.pages)
    /\ _writer = NoWriter
    /\ base = NoWriter
    /\ log = <<>>
    /\ copies = 0
    /\ added = <<>>
    /\ last_call = NoResult
    /\ reopened = NotReopened
    /\ listing = NotListed
    /\ extracted = NotExtracted

\* No copy runs once the writer is cached: one environment stands for all.
EnvsNow(envs) ==
    IF WriterIsCached(_writer) THEN {CHOOSE e \in envs : e[1].ok} ELSE envs

AddBookmark(marks, envs) ==
    \E m \in marks, parent \in {0} \cup {added[k].handle : k \in 1..Len(added)},
       env \in EnvsNow(envs), accepted \in BOOLEAN :
        add_bookmark(m.title, m.pagenum, parent, env, accepted)

SavePdf(envs) == \E env \in EnvsNow(envs) : save_pdf(env)

Init == InitWith(SrcPaths, TRUE)

Next ==
    \/ AddBookmark(PlainMarks, Envs(reader))
    \/ SavePdf(Envs(reader))

Spec == Init /\ [][Next]_vars

InitTrip == InitWith({<<"a", ".", "b", ".", "p">>}, FALSE)

NextTrip ==
    \/ AddBookmark(Marks, CleanEnvs(reader))
    \/ SavePdf(CleanEnvs(reader))
    \/ reopen

SpecTrip == InitTrip /\ [][NextTrip]_vars

(***************************************************************************)
(* The source documents of the outline specification                      *)
(***************************************************************************)
\* The page objects' idnums in page order, of two source documents.
SrcLayouts == {<<2, 1>>, <<1, 3>>}

\* A page reference that resolves in both layouts, a numeric target, and a
\* reference that dangles in the second layout; and an unknown node.
LeafItems ==
    {Destination(<<"a">>, RefPage(1)),
     Destination(<<SP, "b">>, IntPage(1)),
     Destination(<<"c", SP>>, RefPage(2)),
     Unknown}

\* The item sequences of exactly n nodes.
Sized[n \in 0..MaxNodes] ==
    IF n = 0 THEN {<<>>}
    ELSE {<<l>> \o rest : l \in LeafItems, rest \in Sized[n - 1]}
         \cup UNION {{<<NestedList(inner)>> \o rest :
                          inner \in Sized[m], rest \in Sized[n - 1 - m]} :
                     m \in 0..(n - 1)}

Outlines == UNION {Sized[n] : n \in 0..MaxNodes}

(***************************************************************************)
(* Operations on the source outline                                       *)
(***************************************************************************)
\* Pdf.exist_bookmarks
exist_bookmarks ==
    /\ listing' = [done |-> TRUE] @@
                  _outlines_to_bookmarks(pages_num, reader.outline, 0)
    /\ UNCHANGED <<reader, pages_num, extracted>>
    /\ UNCHANGED writerVars

\* Pdf._extract_bookmarks(self.reader.outline)
extract_bookmarks ==
    /\ extracted' = [done |-> TRUE,
                     nodes |-> _extract_bookmarks(pages_num, reader.outline)]
    /\ UNCHANGED <<reader, pages_num, listing>>
    /\ UNCHANGED writerVars

\* Pdf.__init__ on each source document.
InitOutline ==
    /\ reader \in {[pages |-> l, outline |-> o] : l \in SrcLayouts, o \in Outlines}
    /\ pages_num = _get_pages_num(reader.pages)
    /\ listing = NotListed
    /\ extracted = NotExtracted
    /\ path = <<>>
    /\ keep_outline = FALSE
    /\ _writer = NoWriter
    /\ fs = <<>>
    /\ base = NoWriter
    /\ log = <<>>
    /\ copies = 0
    /\ added = <<>>
    /\ last_call = NoResult
    /\ reopened = NotReopened

NextOutline == exist_bookmarks \/ extract_bookmarks

SpecOutline == InitOutline /\ [][NextOutline]_vars

(***************************************************************************)
(* C6.  exist_bookmarks never raises, and returns exactly the entries of   *)
(* the leaves whose page resolves, in pre-order with siblings in source    *)
(* order: an unknown node or an unresolvable leaf is left out and the walk *)
(* goes on with what follows it.                                           *)
(***************************************************************************)
C6_ListingIsResolvableLeavesInPreOrder ==
    listing.done =>
        LET want == ListedLeaves(reader) IN
        /\ ~listing.raised
        /\ Len(listing.index_list) = Len(want)
        /\ \A k \in 1..Len(want) :
              listing.index_list[k] =
                  DestinationEntry(pages_num, want[k].leaf, want[k].level).entry

\* A dangling leaf and an unknown node come first; the nested leaf after
\* them is still listed.
C6_Witness ==
    /\ listing.done
    /\ reader.pages = <<1, 3>>
    /\ reader.outline = <<Destination(<<"c", SP>>, RefPage(2)), Unknown,
                          NestedList(<<Destination(<<"a">>, RefPage(1))>>)>>
    /\ listing.index_list = << <<SP, "a", SP, SP, "1">> >>

(***************************************************************************)
(* C8.  _extract_bookmarks: the leaves of a nested list that immediately   *)
(* follows a leaf have that leaf as parent; top-level leaves have parent   *)
(* None; the nodes come in pre-order; a parent is always a leaf of the     *)
(* level the nested list itself is an item of.                             *)
(***************************************************************************)
C8_ParentLinking ==
    extracted.done =>
        LET want == Leaves(reader.outline)
            got == extracted.nodes
        IN
        /\ Len(got) = Len(want)
        /\ \A k \in 1..Len(want) :
              LET pth == want[k].path
                  list == Front(pth)
              IN
              /\ got[k].title = want[k].leaf.title
              /\ Len(pth) = 1 => got[k].parent = None
              /\ Len(pth) > 1 =>
                    LET siblings == ItemsAt(reader.outline, Front(list))
                        j == Last(list)
                    IN
                    /\ (j > 1 /\ siblings[j - 1].kind = "dest")
                          => got[k].parent = Front(list) \o <<j - 1>>
                    /\ got[k].parent # None =>
                          /\ Front(got[k].parent) = Front(list)
                          /\ Last(got[k].parent) < j
                          /\ siblings[Last(got[k].parent)].kind = "dest"

\* A leaf, its children, and inside them a list that follows no leaf of its
\* own level: its leaf gets no parent, not the outer leaf.
C8_Witness ==
    /\ extracted.done
    /\ reader.outline = <<Destination(<<"a">>, RefPage(1)),
                          NestedList(<<NestedList(<<Destination(<<"a">>, RefPage(1))>>)>>)>>
    /\ Len(extracted.nodes) = 2
    /\ extracted.nodes[2].parent = None

(***************************************************************************)
(* C9, as the code has it.  The page shown for a listed leaf is one plus   *)
(* the position that the page index gives for the leaf's target, where a   *)
(* numeric target is looked up in the index as a page-object identifier,   *)
(* exactly as the idnum of a page reference is.                            *)
(***************************************************************************)
C9_PageShownIsIndexedPositionPlusOne ==
    listing.done =>
        LET want == ListedLeaves(reader) IN
        /\ Len(listing.index_list) = Len(want)
        /\ \A k \in 1..Len(want) :
              PageShown(listing.index_list[k]) =
                  PositionOf(reader.pages, want[k].leaf.page.n) + 1

\* The numeric target 1 is listed as page 1: object 1 is the first page.
C9_Witness ==
    /\ listing.done
    /\ reader.pages = <<1, 3>>
    /\ reader.outline = <<Destination(<<SP, "b">>, IntPage(1))>>
    /\ listing.index_list = << <<"b", SP, SP, "1">> >>

\* C9 as claimed: a numeric target is itself the zero-based page position.
ClaimedPosition(pages, page) ==
    CASE page.t = "int" -> IF page.n < Len(pages) THEN page.n ELSE NoPage
      [] page.t = "ref" ->
            IF HasPage(pages, page.n) THEN PositionOf(pages, page.n) ELSE NoPage
      [] OTHER -> NoPage

C9_NumericTargetIsThePosition ==
    listing.done =>
        LET Claimed(r) == ClaimedPosition(reader.pages, r.leaf.page) # NoPage
            want == SelectSeq(Leaves(reader.outline), Claimed)
        IN
        /\ Len(listing.index_list) = Len(want)
        /\ \A k \in 1..Len(want) :
              PageShown(listing.index_list[k]) =
                  ClaimedPosition(reader.pages, want[k].leaf.page) + 1


(***************************************************************************)
(* Reading the wrapper's state, for the properties                         *)
(***************************************************************************)
\* The writer's nodes that no add_bookmark call made.
ImportedOutline == SubSeq(_writer.nodes, 1, Len(_writer.nodes) - Len(added))

\* The tier that made the writer: the last attempt of the copy.
TierUsed == Last(log).tier

\* The source's outline nodes, as a writer that holds them shows them: same
\* titles and parents, each target the writer's page at the same position.
SourceOutlineIn(w) ==
    LET src == fs[path].nodes IN
    [k \in 1..Len(src) |->
        Node(src[k].title,
             RefPage(w.pages[PositionOf(reader.pages, src[k].page.n) + 1]),
             src[k].parent)]

(***************************************************************************)
(* C1.  The copy tries full append, append without /Annots and /B, and     *)
(* page-only copy in that order; a tier is tried only after the tier       *)
(* before it failed; the writer is built as soon as one tier succeeds, and *)
(* a call raises for the copy only when the page-only tier failed.         *)
(***************************************************************************)
C1_TiersInOrderOnlyLastFatal ==
    /\ Len(log) <= 3
    /\ copies > 0 => Len(log) >= 1
    /\ \A k \in 1..Len(log) : log[k].tier = k
    /\ \A k \in 1..(Len(log) - 1) : ~log[k].ok
    /\ (log # <<>> /\ Last(log).ok) => _writer.obj # 0
    /\ (log # <<>> /\ ~Last(log).ok) => (Len(log) = 3 /\ _writer.obj = 0)
    /\ (last_call.op = "save_pdf" /\ last_call.raised)
          => (Len(log) = 3 /\ ~log[3].ok)

\* The full append and the append without /Annots and /B failed, the
\* page-only copy succeeded: the writer is built.
C1_Witness ==
    /\ Len(log) = 3
    /\ ~log[1].ok /\ ~log[2].ok /\ log[3].ok
    /\ _writer.obj # 0
    /\ last_call.op = "add_bookmark" /\ ~last_call.raised

(***************************************************************************)
(* C2.  Once the writer is built it is never built again: no later call    *)
(* runs the copy, every later call works on that same writer object, whose *)
(* pages stay and whose outline only grows, so that every bookmark added   *)
(* so far is in the writer, and in the file when save_pdf returns.  A copy *)
(* that raised built nothing: the next access runs the copy again.         *)
(***************************************************************************)
C2_BuiltWriterIsReused ==
    /\ [](/\ \A i \in 1..Len(added) :
                /\ added[i].handle \in 1..Len(_writer.nodes)
                /\ _writer.nodes[added[i].handle].title = added[i].title
                /\ _writer.nodes[added[i].handle].parent = added[i].parent
          /\ (last_call.op = "save_pdf" /\ ~last_call.raised)
                => fs[last_call.path].nodes = _writer.nodes)
    /\ [][_writer.obj # 0 =>
             /\ copies' = copies
             /\ log' = log
             /\ base' = base
             /\ _writer'.obj = _writer.obj
             /\ _writer'.pages = _writer.pages
             /\ Len(_writer'.nodes) >= Len(_writer.nodes)
             /\ SubSeq(_writer'.nodes, 1, Len(_writer.nodes)) = _writer.nodes]_vars

\* Two bookmarks added and the document saved, after one copy.
C2_Witness ==
    /\ copies = 1
    /\ Len(added) = 2
    /\ last_call.op = "save_pdf" /\ ~last_call.raised
    /\ Len(fs[last_call.path].nodes) >= 2

\* The statement as given: the copy runs on the first access only.
C2_CopyRunsOnFirstAccessOnly == copies <= 1

(***************************************************************************)
(* C3.  keep_outline and the source's outline in the built writer.  With   *)
(* keep_outline=False the writer has no outline root and no outline node   *)
(* before a bookmark is added, whichever tier made it.  With               *)
(* keep_outline=True the source's outline is in the writer, and new        *)
(* bookmarks come after it, when the full append or the append without     *)
(* /Annots and /B made the writer; when the page-only copy made it, the    *)
(* writer has none of the source's outline.                                *)
(***************************************************************************)
C3_KeepOutlineByTier ==
    _writer.obj # 0 =>
        /\ \A i \in 1..Len(added) : added[i].handle = Len(ImportedOutline) + i
        /\ ~keep_outline =>
              /\ ImportedOutline = <<>>
              /\ added = <<>> => ~_writer.root
        /\ (keep_outline /\ TierUsed \in {1, 2}) =>
              /\ _writer.root
              /\ ImportedOutline = SourceOutlineIn(_writer)
        /\ (keep_outline /\ TierUsed = 3) => ImportedOutline = <<>>

\* keep_outline=True, the append without /Annots and /B made the writer: the
\* source's two bookmarks, and a new one after them.
C3_Witness ==
    /\ keep_outline
    /\ _writer.obj # 0
    /\ TierUsed = 2
    /\ Len(added) = 1
    /\ Len(_writer.nodes) = 3
    /\ _writer.nodes[1].title = <<"a">>

\* The statement as given: with keep_outline=True the source's outline is in
\* the writer whichever tier made it.
C3_OutlineKeptWhicheverTier ==
    (_writer.obj # 0 /\ keep_outline) => ImportedOutline = SourceOutlineIn(_writer)

(***************************************************************************)
(* C7.  save_pdf writes to the source path with "_new" before the          *)
(* extension and returns that path; however often it is called, and        *)
(* whether or not a file was there, when it returns that path holds the    *)
(* writer's document, and no file of another name ever appears.            *)
(***************************************************************************)
C7_OneOutputFileAtNewPath ==
    /\ DOMAIN fs \subseteq {path, Sibling(path)}
    /\ fs[path] = SourceFile
    /\ (last_call.op = "save_pdf" /\ ~last_call.raised) =>
          /\ last_call.path = Sibling(path)
          /\ Sibling(path) \in DOMAIN fs
          /\ fs[Sibling(path)] = PdfFile(_writer.pages, _writer.nodes)

\* A source path with a dot in its directory only: the output is beside it,
\* holding both bookmarks.
C7_Witness ==
    /\ path = <<"d", ".", "d", "/", "a">>
    /\ last_call.op = "save_pdf" /\ ~last_call.raised
    /\ last_call.path = <<"d", ".", "d", "/", "a", "_", "n", "e", "w">>
    /\ Len(added) = 2
    /\ Len(fs[last_call.path].nodes) >= 2

(***************************************************************************)
(* C10.  Every tier works on its own deep copy of the base writer: the     *)
(* base writer is left as it was passed in (empty), and the writer that is *)
(* returned is another object that holds the source's pages once, none of  *)
(* them from a tier that failed part-way.                                  *)
(***************************************************************************)
C10_NoLeakBetweenAttempts ==
    /\ base.pages = <<>> /\ ~base.root /\ base.nodes = <<>>
    /\ _writer.obj # 0 =>
          /\ _writer.obj = base.obj + TierUsed
          /\ _writer.pages = [i \in 1..Len(reader.pages) |-> WriterPageId(i)]
          /\ Len(ImportedOutline) <= Len(fs[path].nodes)

\* Two tiers failed after appending pages, the third made the writer.
C10_Witness ==
    /\ _writer.obj # 0
    /\ Len(log) = 3
    /\ log[1].pages > 0 /\ log[2].pages > 0
    /\ Len(_writer.pages) = 2

(***************************************************************************)
(* Reading the saved file and its listing, for the properties              *)
(***************************************************************************)
RECURSIVE DepthOf(_, _)
\* The tree level of node k: 0 under the root.
DepthOf(nodes, k) ==
    IF nodes[k].parent = 0 THEN 0 ELSE 1 + DepthOf(nodes, nodes[k].parent)

RECURSIVE PreOrder(_, _, _)
\* The nodes under p, from node i on, in pre-order.
PreOrder(nodes, p, i) ==
    IF i > Len(nodes) THEN <<>>
    ELSE IF nodes[i].parent # p THEN PreOrder(nodes, p, i + 1)
    ELSE <<i>> \o PreOrder(nodes, i, i + 1) \o PreOrder(nodes, p, i + 1)

\* The nodes of a file that its listing shows, in the listing's order.
ShownNodes(file) ==
    LET Keyed(k) == /\ file.nodes[k].page.t # "null"
                    /\ HasPage(file.pages, file.nodes[k].page.n)
    IN  SelectSeq(PreOrder(file.nodes, 0, 1), Keyed)

\* The index of node k in the listing, 0 if it is not shown.
RankOf(shown, k) ==
    IF \E r \in 1..Len(shown) : shown[r] = k
    THEN CHOOSE r \in 1..Len(shown) : shown[r] = k ELSE 0

\* The spaces before the title in an entry made for that title.
IndentOf(entry, title) ==
    Len(entry) - Len(FormatEntry(Strip(title), PageShown(entry)))

\* The bookmarks added before the save that was reopened, with a page of
\* the document.
SavedInRange(i) ==
    /\ added[i].handle <= Len(reopened.file.nodes)
    /\ added[i].pagenum \in 0..(Len(reopened.file.pages) - 1)

(***************************************************************************)
(* C4.  Round trip: after add_bookmark(T, P) with P in range and           *)
(* save_pdf(), the listing of the saved file in a new Pdf has, at the      *)
(* bookmark's place in the outline, the entry of T.strip() and P+1: the    *)
(* title without its leading and trailing whitespace, two spaces, the      *)
(* one-based page number.                                                  *)
(***************************************************************************)
C4_RoundTripStrippedTitle ==
    (reopened.done /\ ~reopened.raised) =>
        LET file == reopened.file
            shown == ShownNodes(file)
        IN
        /\ Len(reopened.index_list) = Len(shown)
        /\ \A i \in 1..Len(added) :
              SavedInRange(i) =>
                  LET r == RankOf(shown, added[i].handle) IN
                  /\ r > 0
                  /\ reopened.index_list[r] =
                        Spaces(DepthOf(file.nodes, added[i].handle))
                        \o FormatEntry(Strip(added[i].title), added[i].pagenum + 1)

\* add_bookmark("a", 0), save, reopen: the listing is "a  1".
C4_Witness ==
    /\ reopened.done /\ ~reopened.raised
    /\ ~keep_outline
    /\ Len(added) >= 1
    /\ added[1].title = <<"a">> /\ added[1].pagenum = 0
    /\ reopened.index_list # <<>>
    /\ reopened.index_list[1] = <<"a", SP, SP, "1">>

\* The statement as given: the entry has the title T itself.
C4_RoundTripTitleAsGiven ==
    (reopened.done /\ ~reopened.raised) =>
        LET file == reopened.file
            shown == ShownNodes(file)
        IN
        \A i \in 1..Len(added) :
            SavedInRange(i) =>
                LET r == RankOf(shown, added[i].handle) IN
                /\ r > 0
                /\ reopened.index_list[r] =
                      Spaces(DepthOf(file.nodes, added[i].handle))
                      \o FormatEntry(added[i].title, added[i].pagenum + 1)

=============================================================================
